---- MODULE Spec2Model ----
(***************************************************************************)
(* A model of the FloodWatch LoRa monitoring dashboard.                    *)
(*                                                                         *)
(*  - Dashboard (src/src/components/Dashboard.tsx, lines 12-175): the      *)
(*    React state floodData / loading / error / lastUpdate, the onValue    *)
(*    subscription and the render of the current state.                    *)
(*  - HistoryChart (same file, lines 211-636): sortedHistory, hourlyData,  *)
(*    the series, the statistics and the trend of one history.             *)
(*  - lib/time (src/unnamed/part_001, lines 108-245): the timestamp        *)
(*    functions, which read the wall clock embedded in an ISO string.      *)
(*  - WaterLevelCard (src/unnamed/part_000, lines 172-333).                *)
(*                                                                         *)
(* Conventions.  A JavaScript string is a sequence of one-character        *)
(* strings.  An optional value is a sequence of length at most one:        *)
(* Undefined is <<>>, Defined(v) is <<v>>.  A measurement (wl_cm) is an    *)
(* integer number of hundredths of a centimetre, so 10.06 cm is 1006 and a *)
(* value with one decimal is a multiple of 10; sums and means are exact.   *)
(***************************************************************************)
EXTENDS Integers, Sequences, FiniteSets, TLC

VARIABLES
    \* ---- Dashboard (React state and its environment)
    floodData,      \* useState<FloodData | null>
    loading,        \* useState(true)
    error,          \* useState<string | null>
    lastUpdate,     \* useState<Date | null>
    listeners,      \* number of live onValue registrations on ref "flood"
    mounted,        \* the Dashboard is in the React tree
    view,           \* what the last render returned
    lastDelivered,  \* the most recent callback and its value (observation only)
    \* ---- HistoryChart (props, React state, memoised values)
    history,        \* props.history
    viewMode,       \* useState<ViewMode>("default")
    localZone,      \* UTC offset, in hours, of the evaluating process
    sortedHistory,  \* useMemo, deps [history]
    hourlyData,     \* useMemo, deps [sortedHistory]
    chart,          \* categories, series, statistics and trend of the last render
    chart24,        \* the same history rendered by the last-24 HistoryChart
    siblingViewMode, \* useState<ViewMode> of the HistoryChart of another node
    \* ---- getStatus (the three WaterLevelCard variants) and barColor
    currentLevel,   \* the level handed to the classifiers
    status,         \* what each classifier returns for it
    \* ---- lib/time
    stamp,          \* the timestamp_iso and timestamp_epoch of a reading
    shown,          \* what each timestamp function returns for it
    \* ---- WaterLevelCard (the water_level_cm card with the update highlight)
    cardData,       \* props.data: null or an object, known by its reference
    isUpdating,     \* useState(false)
    pendingTimers,  \* the timers set by setTimeout and neither fired nor cleared
    timersSet,      \* the number of setTimeout calls so far; the id of the last
    cardPhase       \* "rendered" (effect not yet run), "mounted", "unmounted"

dashVars  == <<floodData, loading, error, lastUpdate, listeners, mounted, view,
               lastDelivered>>
chartVars == <<history, viewMode, localZone, sortedHistory, hourlyData, chart,
               chart24, siblingViewMode>>
statusVars == <<currentLevel, status>>
timeVars  == <<stamp, shown>>
cardVars  == <<cardData, isUpdating, pendingTimers, timersSet, cardPhase>>
auxVars   == <<statusVars, timeVars, cardVars>>
vars      == <<dashVars, chartVars, auxVars>>

----------------------------------------------------------------------------
(* Optional values and strings *)

Undefined == <<>>

Defined(v) == <<v>>

IsDefined(o) == o # <<>>

ValueOf(o) == o[1]

\* JavaScript truthiness of an optional string: undefined and "" are falsy.
Truthy(o) == IsDefined(o) /\ ValueOf(o) # <<>>

DigitChars == <<"0", "1", "2", "3", "4", "5", "6", "7", "8", "9">>

IsDigit(c) == c \in {"0", "1", "2", "3", "4", "5", "6", "7", "8", "9"}

DigitVal(c) ==
    CASE c = "0" -> 0 [] c = "1" -> 1 [] c = "2" -> 2 [] c = "3" -> 3 [] c = "4" -> 4
      [] c = "5" -> 5 [] c = "6" -> 6 [] c = "7" -> 7 [] c = "8" -> 8 [] c = "9" -> 9

\* String(n) for a non-negative integer n.
RECURSIVE NumStr(_)
NumStr(n) == IF n < 10 THEN <<DigitChars[n + 1]>>
             ELSE NumStr(n \div 10) \o <<DigitChars[(n % 10) + 1]>>

\* s.padStart(2, "0")
PadStart2(s) == IF Len(s) >= 2 THEN s
                ELSE IF Len(s) = 1 THEN <<"0">> \o s ELSE <<"0", "0">>

\* parseInt(s, 10) of a string of digits.
RECURSIVE ParseInt(_)
ParseInt(s) == IF s = <<>> THEN 0
               ELSE 10 * ParseInt(SubSeq(s, 1, Len(s) - 1)) + DigitVal(s[Len(s)])

\* A regular expression without repetition: a sequence of items, "#" standing
\* for \d and any other character for itself.
MatchesAt(s, i, pat) ==
    /\ i + Len(pat) - 1 <= Len(s)
    /\ \A k \in 1..Len(pat) :
          IF pat[k] = "#" THEN IsDigit(s[i + k - 1]) ELSE s[i + k - 1] = pat[k]

RECURSIVE FirstMatchFrom(_, _, _)
FirstMatchFrom(s, i, pat) ==
    IF i + Len(pat) - 1 > Len(s) THEN 0
    ELSE IF MatchesAt(s, i, pat) THEN i
    ELSE FirstMatchFrom(s, i + 1, pat)

\* s.match(pat): the index of the leftmost match, 0 when there is none.
FirstMatch(s, pat) == FirstMatchFrom(s, 1, pat)

\* a.localeCompare(b) < 0 for strings of digits, "-", ":" and "T": the
\* punctuation sorts before the digits and the digits before the letters.
CharRank(c) == IF IsDigit(c) THEN 3 + DigitVal(c)
               ELSE IF c = "-" THEN 1 ELSE IF c = ":" THEN 2 ELSE 13

RECURSIVE StrLess(_, _)
StrLess(a, b) ==
    IF b = <<>> THEN FALSE
    ELSE IF a = <<>> THEN TRUE
    ELSE IF CharRank(a[1]) # CharRank(b[1]) THEN CharRank(a[1]) < CharRank(b[1])
    ELSE StrLess(Tail(a), Tail(b))

----------------------------------------------------------------------------
(* Date: the calendar fields of an epoch in a zone with a fixed UTC offset *)

\* The proleptic Gregorian date <<year, month, day>> of a day number
\* (days since 1970-01-01), as Date.prototype.getFullYear/getMonth/getDate
\* compute it.
CivilFromDays(days) ==
    LET z   == days + 719468
        era == z \div 146097
        doe == z - era * 146097
        yoe == (doe - (doe \div 1460) + (doe \div 36524) - (doe \div 146096)) \div 365
        doy == doe - (365 * yoe + (yoe \div 4) - (yoe \div 100))
        mp  == (5 * doy + 2) \div 153
        d   == doy - ((153 * mp + 2) \div 5) + 1
        m   == IF mp < 10 THEN mp + 3 ELSE mp - 9
        y   == yoe + era * 400 + (IF m <= 2 THEN 1 ELSE 0)
    IN  <<y, m, d>>

\* new Date(epochSeconds * 1000) read in the zone `zone` (hours east of UTC).
LocalSeconds(epochSeconds, zone) == epochSeconds + zone * 3600

GetHours(epochSeconds, zone) ==
    (LocalSeconds(epochSeconds, zone) % 86400) \div 3600

GetMinutes(epochSeconds, zone) ==
    (LocalSeconds(epochSeconds, zone) % 3600) \div 60

GetSeconds(epochSeconds, zone) == LocalSeconds(epochSeconds, zone) % 60

GetCivil(epochSeconds, zone) ==
    CivilFromDays(LocalSeconds(epochSeconds, zone) \div 86400)

----------------------------------------------------------------------------
(* lib/time *)

\* extractIsoHour(isoString?, epochSeconds?)
extractIsoHour(isoString, epochSeconds, zone) ==
    LET s == IF Truthy(isoString) THEN ValueOf(isoString) ELSE <<>>
        i == FirstMatch(s, <<"T", "#", "#", ":">>)
    IN  IF Truthy(isoString) /\ i # 0 THEN ParseInt(SubSeq(s, i + 1, i + 2))
        ELSE IF IsDefined(epochSeconds) THEN GetHours(ValueOf(epochSeconds), zone)
        ELSE 0

\* A variant of extractIsoDate without the test of epochSeconds: the Date of
\* an undefined epoch is invalid and its fields are NaN.
extractIsoDateNoGuard(isoString, epochSeconds, zone) ==
    LET s == IF Truthy(isoString) THEN ValueOf(isoString) ELSE <<>>
        i == FirstMatch(s, <<"#", "#", "#", "#", "-", "#", "#", "-", "#", "#">>)
    IN  IF Truthy(isoString) /\ i # 0 THEN SubSeq(s, i, i + 9)
        ELSE IF IsDefined(epochSeconds)
             THEN LET c == GetCivil(ValueOf(epochSeconds), zone)
                  IN  NumStr(c[1]) \o <<"-">> \o PadStart2(NumStr(c[2]))
                        \o <<"-">> \o PadStart2(NumStr(c[3]))
        ELSE <<"N", "a", "N", "-", "N", "a", "N", "-", "N", "a", "N">>

\* extractIsoDate(isoString?, epochSeconds?)
extractIsoDate(isoString, epochSeconds, zone) ==
    LET s == IF Truthy(isoString) THEN ValueOf(isoString) ELSE <<>>
        i == FirstMatch(s, <<"#", "#", "#", "#", "-", "#", "#", "-", "#", "#">>)
    IN  IF Truthy(isoString) /\ i # 0 THEN SubSeq(s, i, i + 9)
        ELSE IF IsDefined(epochSeconds)
             THEN LET c == GetCivil(ValueOf(epochSeconds), zone)
                  IN  NumStr(c[1]) \o <<"-">> \o PadStart2(NumStr(c[2]))
                        \o <<"-">> \o PadStart2(NumStr(c[3]))
        ELSE <<"1", "9", "7", "0", "-", "0", "1", "-", "0", "1">>

\* The sentinel string of the display functions (one character, U+2014).
EmDash == <<"EM-DASH">>

\* "HH:MM" of an epoch read in the zone `zone`.
LocalTime(epochSeconds, zone) ==
    PadStart2(NumStr(GetHours(epochSeconds, zone))) \o <<":">>
        \o PadStart2(NumStr(GetMinutes(epochSeconds, zone)))

\* A variant of formatIsoTime that prefers the epoch, read in the local zone,
\* to the ISO string.
formatIsoTimeLocal(isoString, epochSeconds, zone) ==
    LET s == IF Truthy(isoString) THEN ValueOf(isoString) ELSE <<>>
        i == FirstMatch(s, <<"T", "#", "#", ":", "#", "#">>)
    IN  IF IsDefined(epochSeconds) THEN LocalTime(ValueOf(epochSeconds), zone)
        ELSE IF Truthy(isoString) /\ i # 0
             THEN SubSeq(s, i + 1, i + 2) \o <<":">> \o SubSeq(s, i + 4, i + 5)
        ELSE EmDash

\* formatIsoTime(isoString?, epochSeconds?): "HH:MM".  The epoch branch is
\* toLocaleTimeString with 2-digit hour and minute, read in the local zone.
formatIsoTime(isoString, epochSeconds, zone) ==
    LET s == IF Truthy(isoString) THEN ValueOf(isoString) ELSE <<>>
        i == FirstMatch(s, <<"T", "#", "#", ":", "#", "#">>)
    IN  IF Truthy(isoString) /\ i # 0
        THEN SubSeq(s, i + 1, i + 2) \o <<":">> \o SubSeq(s, i + 4, i + 5)
        ELSE IF IsDefined(epochSeconds)
             THEN PadStart2(NumStr(GetHours(ValueOf(epochSeconds), zone))) \o <<":">>
                    \o PadStart2(NumStr(GetMinutes(ValueOf(epochSeconds), zone)))
        ELSE EmDash

\* formatIsoDateTime(isoString?, epochSeconds?): "DD/MM/YYYY, HH:MM:SS".  The
\* epoch branch is toLocaleString(), read in the local zone and written here
\* in the same day-first format.
formatIsoDateTime(isoString, epochSeconds, zone) ==
    LET s == IF Truthy(isoString) THEN ValueOf(isoString) ELSE <<>>
        i == FirstMatch(s, <<"#", "#", "#", "#", "-", "#", "#", "-", "#", "#",
                             "T", "#", "#", ":", "#", "#", ":", "#", "#">>)
    IN  IF Truthy(isoString) /\ i # 0
        THEN SubSeq(s, i + 8, i + 9) \o <<"/">> \o SubSeq(s, i + 5, i + 6)
               \o <<"/">> \o SubSeq(s, i, i + 3) \o <<",", " ">>
               \o SubSeq(s, i + 11, i + 18)
        ELSE IF IsDefined(epochSeconds)
             THEN LET e == ValueOf(epochSeconds)
                      c == GetCivil(e, zone)
                  IN  PadStart2(NumStr(c[3])) \o <<"/">> \o PadStart2(NumStr(c[2]))
                        \o <<"/">> \o NumStr(c[1]) \o <<",", " ">>
                        \o LocalTime(e, zone) \o <<":">>
                        \o PadStart2(NumStr(GetSeconds(e, zone)))
        ELSE EmDash

\* What the four timestamp functions return for one reading.
ShownFor(st, zone) ==
    [time     |-> formatIsoTime(st.iso, st.epoch, zone),
     dateTime |-> formatIsoDateTime(st.iso, st.epoch, zone),
     hour     |-> extractIsoHour(st.iso, st.epoch, zone),
     date     |-> extractIsoDate(st.iso, st.epoch, zone)]

----------------------------------------------------------------------------
(* Numbers: toFixed(1) on hundredths *)

\* n / d rounded to the nearest integer, a tie going away from zero (d > 0):
\* Number.prototype.toFixed picks the larger n of two equally near ones and
\* treats a negative number through its absolute value.
RoundDiv(n, d) == IF n >= 0 THEN (2 * n + d) \div (2 * d)
                  ELSE -((2 * (-n) + d) \div (2 * d))

\* parseFloat((n / d).toFixed(1)), n in hundredths, the result in hundredths.
ToFixed1Div(n, d) == 10 * RoundDiv(n, 10 * d)

\* parseFloat(x.toFixed(1))
ToFixed1(x) == ToFixed1Div(x, 1)

Min2(a, b) == IF a <= b THEN a ELSE b

Max2(a, b) == IF a >= b THEN a ELSE b

RECURSIVE SumSeq(_)
SumSeq(s) == IF s = <<>> THEN 0 ELSE s[1] + SumSeq(Tail(s))

\* Math.max(...s) and Math.min(...s) of a non-empty sequence.
MaxSeq(s) == CHOOSE x \in {s[i] : i \in 1..Len(s)} : \A i \in 1..Len(s) : s[i] <= x

MinSeq(s) == CHOOSE x \in {s[i] : i \in 1..Len(s)} : \A i \in 1..Len(s) : x <= s[i]

MapSeq(s, F(_)) == [i \in 1..Len(s) |-> F(s[i])]

----------------------------------------------------------------------------
(* HistoryChart *)

\* The comparator (a, b) => a.timestamp_epoch - b.timestamp_epoch.
\* A variant of the comparator with its operands exchanged.
CompareEpochReversed(a, b) == b.timestamp_epoch - a.timestamp_epoch

CompareEpoch(a, b) == a.timestamp_epoch - b.timestamp_epoch

\* One step of Array.prototype.sort, which is stable: r goes behind every
\* element the comparator does not put after it.
RECURSIVE InsertSorted(_, _)
InsertSorted(sorted, r) ==
    IF sorted = <<>> THEN <<r>>
    ELSE IF CompareEpoch(sorted[Len(sorted)], r) <= 0 THEN Append(sorted, r)
    ELSE Append(InsertSorted(SubSeq(sorted, 1, Len(sorted) - 1), r),
                sorted[Len(sorted)])

RECURSIVE SortFrom(_, _)
SortFrom(sorted, rest) ==
    IF rest = <<>> THEN sorted
    ELSE SortFrom(InsertSorted(sorted, rest[1]), Tail(rest))

\* A variant of the sort that is not stable: it lists tied entries in the
\* reverse of their input order.
SortedHistoryUnstable(h) ==
    SortFrom(<<>>, [i \in 1..Len(h) |-> h[Len(h) + 1 - i]])

\* A variant without the sort: the series in the order of the input.
SortedHistoryAsGiven(h) == h

\* [...history].sort((a, b) => a.timestamp_epoch - b.timestamp_epoch)
SortedHistory(h) == SortFrom(<<>>, h)

\* const key = `${date}-${String(hour).padStart(2, "0")}`
BucketKey(date, hour) == date \o <<"-">> \o PadStart2(NumStr(hour))

\* The position of key in the Map's insertion order, 0 when it is absent.
BucketIndex(buckets, key) ==
    IF \E i \in 1..Len(buckets) : buckets[i].key = key
    THEN CHOOSE i \in 1..Len(buckets) : buckets[i].key = key
    ELSE 0

\* A variant of the loop body that sets a new bucket for every reading, which
\* replaces the bucket the key already has.
AddToBucketsOverwrite(buckets, r, zone) ==
    LET date == extractIsoDate(r.timestamp_iso, Defined(r.timestamp_epoch), zone)
        hour == extractIsoHour(r.timestamp_iso, Defined(r.timestamp_epoch), zone)
        key  == BucketKey(date, hour)
        i    == BucketIndex(buckets, key)
        new  == [key |-> key, sum |-> r.wl_cm, min |-> r.wl_cm, max |-> r.wl_cm,
                 count |-> 1, date |-> date, hour |-> hour]
    IN  IF i # 0 THEN [buckets EXCEPT ![i] = new] ELSE Append(buckets, new)

\* A variant of the loop body that takes the last reading of a bucket for its
\* min and its max.
AddToBucketsLastExtremes(buckets, r, zone) ==
    LET date == extractIsoDate(r.timestamp_iso, Defined(r.timestamp_epoch), zone)
        hour == extractIsoHour(r.timestamp_iso, Defined(r.timestamp_epoch), zone)
        key  == BucketKey(date, hour)
        i    == BucketIndex(buckets, key)
    IN  IF i # 0
        THEN [buckets EXCEPT ![i] =
                 [@ EXCEPT !.sum   = @ + r.wl_cm,
                           !.min   = r.wl_cm,
                           !.max   = r.wl_cm,
                           !.count = @ + 1]]
        ELSE Append(buckets,
                 [key |-> key, sum |-> r.wl_cm, min |-> r.wl_cm, max |-> r.wl_cm,
                  count |-> 1, date |-> date, hour |-> hour])

\* The body of `for (const r of sortedHistory)`: buckets.get / buckets.set.
AddToBuckets(buckets, r, zone) ==
    LET date == extractIsoDate(r.timestamp_iso, Defined(r.timestamp_epoch), zone)
        hour == extractIsoHour(r.timestamp_iso, Defined(r.timestamp_epoch), zone)
        key  == BucketKey(date, hour)
        i    == BucketIndex(buckets, key)
    IN  IF i # 0
        THEN [buckets EXCEPT ![i] =
                 [@ EXCEPT !.sum   = @ + r.wl_cm,
                           !.min   = Min2(@, r.wl_cm),
                           !.max   = Max2(@, r.wl_cm),
                           !.count = @ + 1]]
        ELSE Append(buckets,
                 [key   |-> key,
                  sum   |-> r.wl_cm,
                  min   |-> r.wl_cm,
                  max   |-> r.wl_cm,
                  count |-> 1,
                  date  |-> date,
                  hour  |-> hour])

RECURSIVE Buckets(_, _, _)
Buckets(buckets, rs, zone) ==
    IF rs = <<>> THEN buckets
    ELSE Buckets(AddToBuckets(buckets, rs[1], zone), Tail(rs), zone)

\* label: `${dayMonth} ${hourStr}:00`, dayMonth being DD/MM of the date.
BucketLabel(bucket) ==
    LET d  == bucket.date
        i  == FirstMatch(d, <<"#", "#", "#", "#", "-", "#", "#", "-", "#", "#">>)
        dm == IF i # 0 THEN SubSeq(d, i + 8, i + 9) \o <<"/">> \o SubSeq(d, i + 5, i + 6)
              ELSE d
    IN  dm \o <<" ">> \o PadStart2(NumStr(bucket.hour)) \o <<":", "0", "0">>

\* points.push({label, avg, min, max, count, sortKey})
BucketPoint(bucket) ==
    [label   |-> BucketLabel(bucket),
     avg     |-> ToFixed1Div(bucket.sum, bucket.count),
     min     |-> ToFixed1(bucket.min),
     max     |-> ToFixed1(bucket.max),
     count   |-> bucket.count,
     sortKey |-> bucket.key]

\* The comparator (a, b) => a.sortKey.localeCompare(b.sortKey), as "a is not
\* put after b".
PointNotAfter(a, b) == ~StrLess(b.sortKey, a.sortKey)

RECURSIVE InsertPoint(_, _)
InsertPoint(sorted, p) ==
    IF sorted = <<>> THEN <<p>>
    ELSE IF PointNotAfter(sorted[Len(sorted)], p) THEN Append(sorted, p)
    ELSE Append(InsertPoint(SubSeq(sorted, 1, Len(sorted) - 1), p),
                sorted[Len(sorted)])

RECURSIVE SortPointsFrom(_, _)
SortPointsFrom(sorted, rest) ==
    IF rest = <<>> THEN sorted
    ELSE SortPointsFrom(InsertPoint(sorted, rest[1]), Tail(rest))

\* points.sort((a, b) => a.sortKey.localeCompare(b.sortKey))
SortPoints(points) == SortPointsFrom(<<>>, points)

\* The useMemo of hourlyData over sortedHistory.
HourlyData(sorted, zone) ==
    IF Len(sorted) = 0 THEN <<>>
    ELSE LET buckets == Buckets(<<>>, sorted, zone)
         IN  SortPoints([i \in 1..Len(buckets) |-> BucketPoint(buckets[i])])

\* categories: the labels of the x axis.
Categories(mode, sorted, hourly, zone) ==
    IF mode = "hourly" THEN [i \in 1..Len(hourly) |-> hourly[i].label]
    ELSE [i \in 1..Len(sorted) |->
             formatIsoTime(sorted[i].timestamp_iso,
                           Defined(sorted[i].timestamp_epoch), zone)]

\* seriesData: the plotted values.
SeriesData(mode, sorted, hourly) ==
    IF mode = "hourly" THEN [i \in 1..Len(hourly) |-> hourly[i].avg]
    ELSE [i \in 1..Len(sorted) |-> ToFixed1(sorted[i].wl_cm)]

\* A variant of dataLength that counts the readings in both view modes.
DataLengthOfReadings(mode, sorted, hourly) == Len(sorted)

\* dataLength
DataLength(mode, sorted, hourly) ==
    IF mode = "hourly" THEN Len(hourly) ELSE Len(sorted)

\* A variant of the statistics that cuts each value to one decimal
\* (Math.floor(x * 10) / 10) instead of rounding it.
StatsTruncated(mode, sorted, hourly) ==
    LET Cut(n, d) == 10 * (n \div (10 * d))
    IN  IF mode = "hourly"
        THEN IF Len(hourly) = 0 THEN [maxLevel |-> 0, minLevel |-> 0, avgLevel |-> 0]
             ELSE [maxLevel |-> Cut(MaxSeq([i \in 1..Len(hourly) |-> hourly[i].max]), 1),
                   minLevel |-> Cut(MinSeq([i \in 1..Len(hourly) |-> hourly[i].min]), 1),
                   avgLevel |-> Cut(SumSeq([i \in 1..Len(hourly) |-> hourly[i].avg]),
                                    Len(hourly))]
        ELSE IF Len(sorted) = 0 THEN [maxLevel |-> 0, minLevel |-> 0, avgLevel |-> 0]
             ELSE [maxLevel |-> Cut(MaxSeq([i \in 1..Len(sorted) |-> sorted[i].wl_cm]), 1),
                   minLevel |-> Cut(MinSeq([i \in 1..Len(sorted) |-> sorted[i].wl_cm]), 1),
                   avgLevel |-> Cut(SumSeq([i \in 1..Len(sorted) |-> sorted[i].wl_cm]),
                                    Len(sorted))]

\* {maxLevel, minLevel, avgLevel}
Stats(mode, sorted, hourly) ==
    IF mode = "hourly"
    THEN IF Len(hourly) = 0 THEN [maxLevel |-> 0, minLevel |-> 0, avgLevel |-> 0]
         ELSE [maxLevel |-> ToFixed1(MaxSeq([i \in 1..Len(hourly) |-> hourly[i].max])),
               minLevel |-> ToFixed1(MinSeq([i \in 1..Len(hourly) |-> hourly[i].min])),
               avgLevel |-> ToFixed1Div(SumSeq([i \in 1..Len(hourly) |-> hourly[i].avg]),
                                        Len(hourly))]
    ELSE IF Len(sorted) = 0 THEN [maxLevel |-> 0, minLevel |-> 0, avgLevel |-> 0]
         ELSE [maxLevel |-> ToFixed1(MaxSeq([i \in 1..Len(sorted) |-> sorted[i].wl_cm])),
               minLevel |-> ToFixed1(MinSeq([i \in 1..Len(sorted) |-> sorted[i].wl_cm])),
               avgLevel |-> ToFixed1Div(SumSeq([i \in 1..Len(sorted) |-> sorted[i].wl_cm]),
                                        Len(sorted))]

\* A variant of the split that gives the odd element to the first half
\* (mid = Math.ceil(length / 2)).
HalfDeltaCeil(values) ==
    LET n   == Len(values)
        mid == (n + 1) \div 2
        s1  == SumSeq(SubSeq(values, 1, mid))
        s2  == SumSeq(SubSeq(values, mid + 1, n))
    IN  <<s2 * mid - s1 * (n - mid), mid * (n - mid)>>

\* secondAvg - firstAvg of a series of at least two values, as the exact
\* fraction <<numerator, denominator>> (hundredths of a centimetre).
HalfDelta(values) ==
    LET n   == Len(values)
        mid == n \div 2
        s1  == SumSeq(SubSeq(values, 1, mid))
        s2  == SumSeq(SubSeq(values, mid + 1, n))
    IN  <<s2 * mid - s1 * (n - mid), mid * (n - mid)>>

\* trend
Trend(mode, sorted, hourly) ==
    IF mode = "hourly"
    THEN IF Len(hourly) < 2 THEN <<0, 1>>
         ELSE HalfDelta([i \in 1..Len(hourly) |-> hourly[i].avg])
    ELSE IF Len(sorted) < 2 THEN <<0, 1>>
         ELSE HalfDelta([i \in 1..Len(sorted) |-> sorted[i].wl_cm])

\* if (history.length === 0): the early return after the hooks.
ChartIsEmpty(h) == Len(h) = 0

\* What HistoryChart returns: the early return for an empty history, else the
\* header, the plot (or the inner "no data" branch) and the statistics row.
RenderChart(h, mode, sorted, hourly, zone) ==
    IF ChartIsEmpty(h) THEN [kind |-> "no-history"]
    ELSE [kind       |-> "chart",
          categories |-> Categories(mode, sorted, hourly, zone),
          seriesData |-> SeriesData(mode, sorted, hourly),
          dataLength |-> DataLength(mode, sorted, hourly),
          plot       |-> IF DataLength(mode, sorted, hourly) = 0
                         THEN "no-data" ELSE "line",
          stats      |-> Stats(mode, sorted, hourly),
          trend      |-> Trend(mode, sorted, hourly),
          readings   |-> Len(h)]

----------------------------------------------------------------------------
(* WaterLevelCard (the wl_cm card) *)

\* n centimetres, in hundredths.
Cm(n) == n * 100

\* A variant of the descending classifier with strict comparisons.
getStatusStrict(level) ==
    IF level < Cm(20) THEN "BAHAYA"
    ELSE IF level < Cm(40) THEN "SIAGA"
    ELSE "AMAN"

\* getStatus(level), level in hundredths of a centimetre.
getStatus(level) ==
    IF level <= Cm(20) THEN "BAHAYA"
    ELSE IF level <= Cm(40) THEN "SIAGA"
    ELSE "AMAN"

\* A variant of the ascending classifier that tests its conditions in the
\* opposite order.
getStatusAscendingReordered(level) ==
    IF level > Cm(100) THEN "MODERATE"
    ELSE IF level > Cm(200) THEN "WARNING"
    ELSE IF level > Cm(300) THEN "CRITICAL"
    ELSE "NORMAL"

\* getStatus(level) of the water_level_cm card: the ascending profile.
getStatusAscending(level) ==
    IF level > Cm(300) THEN "CRITICAL"
    ELSE IF level > Cm(200) THEN "WARNING"
    ELSE IF level > Cm(100) THEN "MODERATE"
    ELSE "NORMAL"

\* A variant of the banded classifier whose band excludes its lower end.
getStatusBandedOpen(level) ==
    IF level < Cm(50) THEN "CRITICAL"
    ELSE IF level <= Cm(200) THEN "WARNING"
    ELSE IF level > Cm(300) THEN "MODERATE"
    ELSE "NORMAL"

\* getStatus(level) of the banded profile.
getStatusBanded(level) ==
    IF level < Cm(50) THEN "CRITICAL"
    ELSE IF level < Cm(200) THEN "WARNING"
    ELSE IF level > Cm(300) THEN "MODERATE"
    ELSE "NORMAL"

\* barColor of the last-24 HistoryChart, for level = record.water_level_cm.
barColor(level) ==
    IF level > Cm(300) THEN "bg-red-400"
    ELSE IF level > Cm(200) THEN "bg-orange-400"
    ELSE IF level > Cm(100) THEN "bg-yellow-400"
    ELSE "bg-green-400"

\* What the three cards and the bar of the chart show for one level.
StatusOf(l) ==
    [ascending  |-> getStatusAscending(l),
     descending |-> getStatus(l),
     banded     |-> getStatusBanded(l),
     barColor   |-> barColor(l)]

----------------------------------------------------------------------------
(* HistoryChart, the last-24 variant (src/src/components/HistoryChart.tsx) *)

\* A reading in the schema of the last-24 chart: ts and water_level_cm.
LegacyRecord(r) ==
    [id |-> r.id, ts |-> r.timestamp_epoch, water_level_cm |-> r.wl_cm]

LegacyHistory(h) == [i \in 1..Len(h) |-> LegacyRecord(h[i])]

\* (a, b) => a.ts - b.ts
CompareTs(a, b) == a.ts - b.ts

RECURSIVE InsertByTs(_, _)
InsertByTs(sorted, r) ==
    IF sorted = <<>> THEN <<r>>
    ELSE IF CompareTs(sorted[Len(sorted)], r) <= 0 THEN Append(sorted, r)
    ELSE Append(InsertByTs(SubSeq(sorted, 1, Len(sorted) - 1), r),
                sorted[Len(sorted)])

RECURSIVE SortByTsFrom(_, _)
SortByTsFrom(sorted, rest) ==
    IF rest = <<>> THEN sorted
    ELSE SortByTsFrom(InsertByTs(sorted, rest[1]), Tail(rest))

\* A variant of the window that keeps the first 24 readings (slice(0, 24)).
First24(sorted) == SubSeq(sorted, 1, Min2(24, Len(sorted)))

\* sortedHistory.slice(-24)
Last24(sorted) == SubSeq(sorted, Max2(1, Len(sorted) - 23), Len(sorted))

\* trend = secondAvg - firstAvg, each sum divided by (length || 1), as the
\* exact fraction <<numerator, denominator>>.
Trend24(last24) ==
    LET n   == Len(last24)
        mid == n \div 2
        s1  == SumSeq([i \in 1..mid |-> last24[i].water_level_cm])
        s2  == SumSeq([i \in 1..(n - mid) |-> last24[mid + i].water_level_cm])
        d1  == IF mid = 0 THEN 1 ELSE mid
        d2  == IF n - mid = 0 THEN 1 ELSE n - mid
    IN  <<s2 * d1 - s1 * d2, d1 * d2>>

\* What the last-24 HistoryChart returns for the history h.
RenderChart24(h) ==
    IF Len(h) = 0 THEN [kind |-> "no-history"]
    ELSE LET last24 == Last24(SortByTsFrom(<<>>, h))
             levels == [i \in 1..Len(last24) |-> last24[i].water_level_cm]
         IN  [kind  |-> "chart",
              bars  |-> [i \in 1..Len(last24) |->
                           [level    |-> ToFixed1(levels[i]),
                            barColor |-> barColor(levels[i])]],
              stats |-> [maxLevel |-> ToFixed1(MaxSeq(levels)),
                         minLevel |-> ToFixed1(MinSeq(levels)),
                         avgLevel |-> ToFixed1Div(SumSeq(levels), Len(levels))],
              trend |-> Trend24(last24)]

----------------------------------------------------------------------------
(* WaterLevelCard (the wl_cm card): the guard and the render *)

\* A variant of the guard that tests !data.wl_cm, which a level of 0 fails.
CardHasNoDataFalsy(data) ==
    \/ ~IsDefined(data)
    \/ ValueOf(data).type # "object"
    \/ ~IsDefined(ValueOf(data).wl_cm)
    \/ ValueOf(ValueOf(data).wl_cm) = 0

\* The guard !data || typeof data !== "object" || !("wl_cm" in data).
CardHasNoData(data) ==
    \/ ~IsDefined(data)
    \/ ValueOf(data).type # "object"
    \/ ~IsDefined(ValueOf(data).wl_cm)

\* What WaterLevelCard returns for the prop data (null is Undefined).
RenderCard(data) ==
    IF CardHasNoData(data)
    THEN [kind |-> "no-data", level |-> 0, status |-> "none"]
    ELSE [kind   |-> "level",
          level  |-> ToFixed1(ValueOf(ValueOf(data).wl_cm)),
          status |-> getStatus(ValueOf(ValueOf(data).wl_cm))]

----------------------------------------------------------------------------
(* The data of the model: history entries, as the gateway writes them *)

\* "+HH:00", the zone designator of an offset of 0..23 hours east of UTC.
ZoneSuffix(off) == <<"+">> \o PadStart2(NumStr(off)) \o <<":", "0", "0">>

\* The ISO 8601 string of an epoch in the zone of the sensor network, such as
\* "2026-02-26T04:52:57+07:00".
IsoString(epochSeconds, off) ==
    LET c == GetCivil(epochSeconds, off)
    IN  NumStr(c[1]) \o <<"-">> \o PadStart2(NumStr(c[2])) \o <<"-">>
          \o PadStart2(NumStr(c[3])) \o <<"T">>
          \o PadStart2(NumStr(GetHours(epochSeconds, off))) \o <<":">>
          \o PadStart2(NumStr(GetMinutes(epochSeconds, off))) \o <<":">>
          \o PadStart2(NumStr(GetSeconds(epochSeconds, off)))
          \o ZoneSuffix(off)

\* 2026-02-26T04:52:57+07:00, the example of lib/time.
SampleEpoch == 1772056377

\* The UTC offset of the sensor network (WIB).
NodeZone == 7

Entry(epochSeconds, iso, wl) ==
    [timestamp_epoch |-> epochSeconds, timestamp_iso |-> iso, wl_cm |-> wl]

\* The history entries of the model, by push id.  "a" and "b" share their
\* epoch; "c" is ten minutes later, in the next wall-clock hour; "d" is an
\* hour later and carries no ISO string; "e" and "f" are epoch-only entries
\* at the start of the epoch, "f" with an empty ISO string.
RecordIds == {"a", "b", "c", "d", "e", "f"}

Entries ==
    [id \in RecordIds |->
        CASE id = "a" -> Entry(SampleEpoch,
                               Defined(IsoString(SampleEpoch, NodeZone)), 1000)
          [] id = "b" -> Entry(SampleEpoch,
                               Defined(IsoString(SampleEpoch, NodeZone)), 3000)
          [] id = "c" -> Entry(SampleEpoch + 600,
                               Defined(IsoString(SampleEpoch + 600, NodeZone)), 2006)
          [] id = "d" -> Entry(SampleEpoch + 3600, Undefined, 2017)
          [] id = "e" -> Entry(0, Undefined, 1003)
          [] id = "f" -> Entry(3600, Defined(<<>>), -306)]

\* {id, ...value}: a HistoryRecord.
RecordOf(id) ==
    [id              |-> id,
     timestamp_epoch |-> Entries[id].timestamp_epoch,
     timestamp_iso   |-> Entries[id].timestamp_iso,
     wl_cm           |-> Entries[id].wl_cm]

\* The sequences of distinct push ids of length at most n: the orders in
\* which the entries of a history map of at most n entries can be listed.
RECURSIVE IdSeqs(_)
IdSeqs(n) ==
    IF n = 0 THEN {<<>>}
    ELSE LET shorter == IdSeqs(n - 1)
             longest == {q \in shorter : Len(q) = n - 1}
         IN  shorter \cup
             UNION {{Append(q, id) : id \in RecordIds \ {q[i] : i \in 1..Len(q)}} :
                       q \in longest}

----------------------------------------------------------------------------
(* The data of the model: snapshots of the "flood" reference *)

NodeIds == {"node_1", "node_2"}

\* A JSON value under nodes/<id>/latest: an object whose properties may be
\* missing, or a primitive.
LatestObject(wl) ==
    [type            |-> "object",
     wl_cm           |-> wl,
     timestamp_epoch |-> Defined(SampleEpoch),
     timestamp_iso   |-> Defined(IsoString(SampleEpoch, NodeZone))]

LatestPrimitive ==
    [type            |-> "number",
     wl_cm           |-> Undefined,
     timestamp_epoch |-> Undefined,
     timestamp_iso   |-> Undefined]

LatestValues ==
    {Undefined,
     Defined(LatestObject(Defined(1500))),
     Defined(LatestObject(Defined(0))),
     Defined(LatestObject(Undefined)),
     Defined(LatestPrimitive)}

\* nodes/<id>/history: missing, an empty map, or a map of entries listed in
\* the order of Object.entries.
HistoryValues == {Undefined, Defined(<<>>), Defined(<<"c", "a">>)}

\* A JSON value under nodes/<id>.
NodeObject(latest, hist) == [type |-> "object", latest |-> latest, history |-> hist]

NodePrimitive == [type |-> "string", latest |-> Undefined, history |-> Undefined]

NodeValues ==
    {NodeObject(l, h) : l \in LatestValues, h \in HistoryValues} \cup {NodePrimitive}

\* The values of the second node of the model: a full node and a primitive.
SecondNodeValues ==
    {NodeObject(Defined(LatestObject(Defined(1500))), Defined(<<"c", "a">>)),
     NodePrimitive}

\* The values of the nodes property: maps of some of the node ids.
NodesMaps ==
    {m \in UNION {[S -> NodeValues] : S \in SUBSET NodeIds} :
        "node_2" \in DOMAIN m => m["node_2"] \in SecondNodeValues}

GatewayValues ==
    {Undefined,
     Defined([status |-> Undefined]),
     Defined([status |-> Defined([last_activity |-> 30])]),
     Defined([status |-> Defined([last_activity |-> 59])]),
     Defined([status |-> Defined([last_activity |-> 60])]),
     Defined([status |-> Defined([last_activity |-> 90])])}

\* The non-null values of snapshot.val(): objects whose gateway and nodes
\* properties may be missing.
Payloads ==
    [gateway : GatewayValues, nodes : {Undefined} \cup {Defined(m) : m \in NodesMaps}]

\* snapshot.val(): null (Undefined) when nothing is stored at the reference.
SnapshotValues == {Undefined} \cup {Defined(p) : p \in Payloads}

----------------------------------------------------------------------------
(* Dashboard: render *)

\* getHistoryArray(nodeData)
getHistoryArray(nodeData) ==
    IF ~IsDefined(nodeData.history) THEN <<>>
    ELSE [i \in 1..Len(ValueOf(nodeData.history)) |->
             RecordOf(ValueOf(nodeData.history)[i])]

\* The node ids of nodeEntries: Object.entries(floodData.nodes) filtered by
\* nodeData && typeof nodeData === "object"; [] when floodData is null.
nodeEntries(fd) ==
    IF ~IsDefined(fd) THEN {}
    ELSE {id \in DOMAIN ValueOf(ValueOf(fd).nodes) :
             ValueOf(ValueOf(fd).nodes)[id].type = "object"}

\* floodData?.gateway?.status
gwStatus(fd) ==
    IF ~IsDefined(fd) THEN Undefined
    ELSE IF ~IsDefined(ValueOf(fd).gateway) THEN Undefined
    ELSE ValueOf(ValueOf(fd).gateway).status

\* A variant of isOnline that counts the end of the window as online.
isOnlineInclusive(fd) ==
    IF IsDefined(gwStatus(fd)) THEN ValueOf(gwStatus(fd)).last_activity <= 60
    ELSE FALSE

\* gwStatus ? gwStatus.last_activity < 60 : false
isOnline(fd) ==
    IF IsDefined(gwStatus(fd)) THEN ValueOf(gwStatus(fd)).last_activity < 60
    ELSE FALSE

\* The render throws a TypeError: Object.entries(undefined) when nodes is
\* missing, floodData.gateway.status when gateway is missing.
RenderThrows(fd) ==
    /\ IsDefined(fd)
    /\ \/ ~IsDefined(ValueOf(fd).nodes)
       \/ ~IsDefined(ValueOf(fd).gateway)

\* The views that show no entity.
PlainView(kind, message) ==
    [kind    |-> kind,
     message |-> message,
     badge   |-> "none",
     gateway |-> "none",
     cards   |-> <<>>,
     charts  |-> <<>>,
     updated |-> FALSE]

\* GatewayStatus({gateway, isOnline})
RenderGateway(gateway, online) ==
    IF ~IsDefined(gateway) THEN "loading"
    ELSE IF online THEN "Online" ELSE "Offline"

\* <HistoryChart history={h} />: the prop the chart is rendered with, and
\* whether it takes its early return for an empty history.
ChartElement(h) ==
    [history |-> h,
     kind    |-> IF ChartIsEmpty(h) THEN "no-history" ELSE "chart"]

\* The body of Dashboard after the two early returns.
RenderMain(fd, upd) ==
    [kind    |-> "dashboard",
     message |-> "",
     badge   |-> IF IsDefined(gwStatus(fd))
                 THEN (IF isOnline(fd) THEN "Online" ELSE "Offline")
                 ELSE "none",
     gateway |-> IF IsDefined(fd)
                 THEN RenderGateway(ValueOf(ValueOf(fd).gateway).status, isOnline(fd))
                 ELSE "none",
     cards   |-> [id \in nodeEntries(fd) |->
                    RenderCard(ValueOf(ValueOf(fd).nodes)[id].latest)],
     charts  |-> [id \in nodeEntries(fd) |->
                    ChartElement(getHistoryArray(ValueOf(ValueOf(fd).nodes)[id]))],
     updated |-> IsDefined(upd)]

\* A variant of the render that tests the data before the error.
RenderDashboardDataFirst(fd, ld, err, upd) ==
    IF ld THEN PlainView("loading", "Connecting to Firebase...")
    ELSE IF RenderThrows(fd) THEN PlainView("crashed", "")
    ELSE IF IsDefined(fd) THEN RenderMain(fd, upd)
    ELSE IF IsDefined(err) THEN PlainView("error", ValueOf(err))
    ELSE RenderMain(fd, upd)

\* What Dashboard returns for a state; "crashed" stands for a render that
\* throws, which leaves nothing of the tree on the page.
RenderDashboard(fd, ld, err, upd) ==
    IF ld THEN PlainView("loading", "Connecting to Firebase...")
    ELSE IF IsDefined(err) THEN PlainView("error", ValueOf(err))
    ELSE IF RenderThrows(fd) THEN PlainView("crashed", "")
    ELSE RenderMain(fd, upd)

----------------------------------------------------------------------------
(* The bounds of the model *)

\* The largest number of entries of a history handed to HistoryChart.
MaxHistory == 3

\* The UTC offsets, in hours, of the processes that evaluate the page.
LocalZones == {0, 7}

\* The histories handed to HistoryChart: getHistoryArray of a history map.
Histories == {[i \in 1..Len(q) |-> RecordOf(q[i])] : q \in IdSeqs(MaxHistory)}

ViewModes == {"default", "hourly"}

\* The largest number of setTimeout calls of one WaterLevelCard.
MaxTimers == 8

\* The levels of the data objects handed to the card, one of each tier.
CardLevels == {Cm(50), Cm(150), Cm(250), Cm(350)}

\* The largest number of readings pushed to the history of the last-24
\* chart, and the largest number of them that arrive late, with a timestamp
\* before every stored one.
MaxReadings == 26

MaxLate == 2

\* The levels handed to the classifiers: the multiples of 5 cm from -10 cm to
\* MaxLevelSteps * 5 cm, each with the level 0.01 cm below and above it.
MaxLevelSteps == 62

Levels == {n * Cm(5) + d : n \in (-2)..MaxLevelSteps, d \in {-1, 0, 1}}

\* The values of timestamp_iso: absent, empty, the example of lib/time and the
\* same instant written in UTC, and strings that are no full ISO 8601
\* date-time (prose, a date without time, a time without seconds, a time
\* cut short, a day-first date).
WellFormedIsos ==
    {Defined(IsoString(SampleEpoch, NodeZone)), Defined(IsoString(SampleEpoch, 0))}

UnusableIsos ==
    {Undefined,
     Defined(<<>>),
     Defined(<<"n", "o", "t", " ", "a", " ", "d", "a", "t", "e">>),
     Defined(<<"2", "6", "/", "0", "2", "/", "2", "0", "2", "6", " ", "0", "4", ".", "5", "2">>)}

PartialIsos ==
    {Defined(SubSeq(IsoString(SampleEpoch, NodeZone), 1, 10)),
     Defined(SubSeq(IsoString(SampleEpoch, NodeZone), 1, 16)),
     Defined(SubSeq(IsoString(SampleEpoch, NodeZone), 11, 15))}

Isos == WellFormedIsos \cup UnusableIsos \cup PartialIsos

\* The values of timestamp_epoch: absent, the start of the epoch, the second
\* before it, the last second of its first day, and the example with the
\* hour after it.
Epochs ==
    {Undefined, Defined(0), Defined(-1), Defined(86399),
     Defined(SampleEpoch), Defined(SampleEpoch + 3600)}

----------------------------------------------------------------------------
(* Dashboard: state machine *)

\* The state after construction: the useState initial values and the first
\* render, before the effect has run.
DashInit ==
    /\ floodData = Undefined
    /\ loading = TRUE
    /\ error = Undefined
    /\ lastUpdate = Undefined
    /\ listeners = 0
    /\ mounted = TRUE
    /\ view = PlainView("loading", "Connecting to Firebase...")
    /\ lastDelivered = [kind |-> "none", val |-> Undefined]

\* The state of a HistoryChart after its first render of the history h.
ChartInitWith(h, zone) ==
    /\ history = h
    /\ viewMode = "default"
    /\ localZone = zone
    /\ sortedHistory = SortedHistory(h)
    /\ hourlyData = HourlyData(SortedHistory(h), zone)
    /\ chart = RenderChart(h, "default", SortedHistory(h),
                           HourlyData(SortedHistory(h), zone), zone)
    /\ chart24 = RenderChart24(LegacyHistory(h))
    /\ siblingViewMode = "default"

\* The classifiers and the timestamp functions before their first call of
\* interest: a level of 0 and a reading without timestamps.
AuxInit ==
    /\ currentLevel = 0
    /\ status = StatusOf(0)
    /\ stamp = [iso |-> Undefined, epoch |-> Undefined]
    /\ shown = ShownFor([iso |-> Undefined, epoch |-> Undefined], localZone)
    /\ cardData = Undefined
    /\ isUpdating = FALSE
    /\ pendingTimers = {}
    /\ timersSet = 0
    /\ cardPhase = "rendered"

\* The Dashboard alone: the chart variables stand still.
Init ==
    /\ DashInit
    /\ ChartInitWith(<<>>, NodeZone)
    /\ AuxInit

\* The re-render that follows the state updates of a callback.  A render that
\* throws unmounts the tree, which runs the cleanup of the effect.
Rerender(fd, ld, err, upd) ==
    LET v == RenderDashboard(fd, ld, err, upd)
    IN  /\ view' = v
        /\ IF v.kind = "crashed"
           THEN mounted' = FALSE /\ listeners' = 0
           ELSE UNCHANGED <<mounted, listeners>>

\* useEffect(() => { const unsubscribe = onValue(floodRef, ..., ...) }, [])
Subscribe ==
    /\ mounted
    /\ listeners = 0
    /\ listeners' = listeners + 1
    /\ UNCHANGED <<floodData, loading, error, lastUpdate, mounted, view, lastDelivered>>
    /\ UNCHANGED <<chartVars, auxVars>>

\* A variant of the snapshot callback that reports a value without nodes or
\* without gateway as "Failed to parse data".
OnSnapshotParseError(data) ==
    LET bad == IsDefined(data) /\ RenderThrows(data)
    IN  /\ listeners > 0
        /\ floodData' = IF IsDefined(data) /\ ~bad THEN data ELSE floodData
        /\ lastUpdate' = IF IsDefined(data) /\ ~bad THEN Defined("Date") ELSE lastUpdate
        /\ error' = IF bad THEN Defined("Failed to parse data")
                    ELSE IF IsDefined(data) THEN Undefined ELSE error
        /\ loading' = FALSE
        /\ lastDelivered' = [kind |-> "snapshot", val |-> data]
        /\ Rerender(floodData', loading', error', lastUpdate')
        /\ UNCHANGED <<chartVars, auxVars>>

\* A variant of the snapshot callback that calls setError(null) for every
\* snapshot, a null one included.
OnSnapshotClearsError(data) ==
    /\ listeners > 0
    /\ floodData' = IF IsDefined(data) THEN data ELSE floodData
    /\ lastUpdate' = IF IsDefined(data) THEN Defined("Date") ELSE lastUpdate
    /\ error' = Undefined
    /\ loading' = FALSE
    /\ lastDelivered' = [kind |-> "snapshot", val |-> data]
    /\ Rerender(floodData', loading', error', lastUpdate')
    /\ UNCHANGED <<chartVars, auxVars>>

\* The snapshot callback of onValue, with data = snapshot.val().
OnSnapshot(data) ==
    /\ listeners > 0
    /\ floodData' = IF IsDefined(data) THEN data ELSE floodData
    /\ lastUpdate' = IF IsDefined(data) THEN Defined("Date") ELSE lastUpdate
    /\ error' = IF IsDefined(data) THEN Undefined ELSE error
    /\ loading' = FALSE
    /\ lastDelivered' = [kind |-> "snapshot", val |-> data]
    /\ Rerender(floodData', loading', error', lastUpdate')
    /\ UNCHANGED <<chartVars, auxVars>>

\* A variant of the error callback without setLoading(false).
OnErrorKeepLoading ==
    /\ listeners > 0
    /\ error' = Defined("Failed to connect to database")
    /\ lastDelivered' = [kind |-> "error", val |-> Undefined]
    /\ UNCHANGED <<floodData, lastUpdate, loading>>
    /\ Rerender(floodData', loading', error', lastUpdate')
    /\ UNCHANGED <<chartVars, auxVars>>

\* The error callback of onValue.
OnError ==
    /\ listeners > 0
    /\ error' = Defined("Failed to connect to database")
    /\ loading' = FALSE
    /\ lastDelivered' = [kind |-> "error", val |-> Undefined]
    /\ UNCHANGED <<floodData, lastUpdate>>
    /\ Rerender(floodData', loading', error', lastUpdate')
    /\ UNCHANGED <<chartVars, auxVars>>

\* A variant of the cleanup that does not call unsubscribe.
UnmountKeepListener ==
    /\ mounted
    /\ mounted' = FALSE
    /\ view' = PlainView("unmounted", "")
    /\ UNCHANGED <<floodData, loading, error, lastUpdate, lastDelivered, listeners>>
    /\ UNCHANGED <<chartVars, auxVars>>

\* The cleanup of the effect: return () => unsubscribe()
Unmount ==
    /\ mounted
    /\ mounted' = FALSE
    /\ listeners' = 0
    /\ view' = PlainView("unmounted", "")
    /\ UNCHANGED <<floodData, loading, error, lastUpdate, lastDelivered>>
    /\ UNCHANGED <<chartVars, auxVars>>

Next ==
    \/ Subscribe
    \/ \E data \in SnapshotValues : OnSnapshot(data)
    \/ OnError
    \/ Unmount

Spec == Init /\ [][Next]_vars

----------------------------------------------------------------------------
(* HistoryChart: state machine *)

\* The chart mounted with the history of a node that has no entry yet, in a
\* process of one of the zones.
ChartInit ==
    /\ DashInit
    /\ \E zone \in LocalZones : ChartInitWith(<<>>, zone)
    /\ AuxInit

\* g is h with one entry pushed to, or removed from, the history map.
OneEntryApart(h, g) ==
    LET ids(q) == {q[i].id : i \in 1..Len(q)}
        without(q, id) == SelectSeq(q, LAMBDA r : r.id # id)
    IN  \/ \E id \in ids(g) \ ids(h) : Len(g) = Len(h) + 1 /\ without(g, id) = h
        \/ \E id \in ids(h) \ ids(g) : Len(h) = Len(g) + 1 /\ without(h, id) = g

\* A variant of the re-render that keeps the buckets of the earlier history
\* when an entry is removed.
HistoryChangeStale(h) ==
    /\ OneEntryApart(history, h)
    /\ history' = h
    /\ sortedHistory' = SortedHistory(h)
    /\ hourlyData' = IF Len(h) < Len(history) THEN hourlyData
                     ELSE HourlyData(sortedHistory', localZone)
    /\ chart' = RenderChart(h, viewMode, sortedHistory', hourlyData', localZone)
    /\ chart24' = RenderChart24(LegacyHistory(h))
    /\ UNCHANGED <<viewMode, localZone, siblingViewMode>>
    /\ UNCHANGED <<dashVars, auxVars>>

\* The parent renders the chart with another history: both memos recompute.
HistoryChange(h) ==
    /\ OneEntryApart(history, h)
    /\ history' = h
    /\ sortedHistory' = SortedHistory(h)
    /\ hourlyData' = HourlyData(sortedHistory', localZone)
    /\ chart' = RenderChart(h, viewMode, sortedHistory', hourlyData', localZone)
    /\ chart24' = RenderChart24(LegacyHistory(h))
    /\ UNCHANGED <<viewMode, localZone, siblingViewMode>>
    /\ UNCHANGED <<dashVars, auxVars>>

\* handleViewChange(mode): setViewMode(mode) and the re-render; the memos of
\* sortedHistory and hourlyData keep their values.
handleViewChange(mode) ==
    /\ viewMode' = mode
    /\ chart' = RenderChart(history, mode, sortedHistory, hourlyData, localZone)
    /\ UNCHANGED <<history, localZone, sortedHistory, hourlyData, chart24,
                   siblingViewMode>>
    /\ UNCHANGED <<dashVars, auxVars>>

\* handleViewChange(mode) of the chart of another node: setViewMode of that
\* component instance.
handleSiblingViewChange(mode) ==
    /\ siblingViewMode' = mode
    /\ UNCHANGED <<history, viewMode, localZone, sortedHistory, hourlyData, chart,
                   chart24>>
    /\ UNCHANGED <<dashVars, auxVars>>

ChartNext ==
    \/ \E h \in Histories : HistoryChange(h)
    \/ \E mode \in ViewModes : handleViewChange(mode)
    \/ \E mode \in ViewModes : handleSiblingViewChange(mode)

SpecChart == ChartInit /\ [][ChartNext]_vars

----------------------------------------------------------------------------
(* HistoryChart with a growing history: state machine *)

\* The readings of h that arrived late: those older than the first one.
LateReadings(h) == {i \in 1..Len(h) : h[i].timestamp_epoch < h[1].timestamp_epoch}

\* The entry a node pushes as its (n + 1)-th: in time, an hour after the
\* newest stored reading; late, an hour before the oldest one, with the high
\* level of an earlier flood.  Neither carries an ISO string.
PushedRecord(h, late) ==
    LET n      == Len(h)
        epochs == {h[i].timestamp_epoch : i \in 1..n}
        newest == CHOOSE e \in epochs : \A f \in epochs : f <= e
        oldest == CHOOSE e \in epochs : \A f \in epochs : e <= f
    IN  [id              |-> ToString(100 + n),
         timestamp_epoch |-> IF n = 0 THEN SampleEpoch
                             ELSE IF late THEN oldest - 3600 ELSE newest + 3600,
         timestamp_iso   |-> Undefined,
         wl_cm           |-> IF late THEN Cm(350) + n ELSE Cm(100) + 37 * n]

\* The parent renders the charts with a history that holds one more entry.
PushReading(late) ==
    /\ Len(history) < MaxReadings
    /\ late => (Len(history) > 0 /\ Cardinality(LateReadings(history)) < MaxLate)
    /\ history' = Append(history, PushedRecord(history, late))
    /\ sortedHistory' = SortedHistory(history')
    /\ hourlyData' = HourlyData(sortedHistory', localZone)
    /\ chart' = RenderChart(history', viewMode, sortedHistory', hourlyData', localZone)
    /\ chart24' = RenderChart24(LegacyHistory(history'))
    /\ UNCHANGED <<viewMode, localZone, siblingViewMode>>
    /\ UNCHANGED <<dashVars, auxVars>>

Last24Next == \E late \in BOOLEAN : PushReading(late)

SpecLast24 == Init /\ [][Last24Next]_vars

----------------------------------------------------------------------------
(* getStatus and barColor: state machine *)

\* A card, or a bar of the last-24 chart, is rendered for the level l.
Classify(l) ==
    /\ currentLevel' = l
    /\ status' = StatusOf(l)
    /\ UNCHANGED <<dashVars, chartVars, timeVars, cardVars>>

StatusNext == \E l \in Levels : Classify(l)

SpecStatus == Init /\ [][StatusNext]_vars

----------------------------------------------------------------------------
(* lib/time: state machine *)

\* The timestamp functions are called for a reading with the given
\* timestamp_iso and timestamp_epoch, in a process of the zone localZone.
ShowStamp(iso, epoch) ==
    /\ stamp' = [iso |-> iso, epoch |-> epoch]
    /\ shown' = ShownFor(stamp', localZone)
    /\ UNCHANGED <<dashVars, chartVars, statusVars, cardVars>>

TimeNext == \E iso \in Isos, epoch \in Epochs : ShowStamp(iso, epoch)

SpecTime == ChartInit /\ [][TimeNext]_vars

----------------------------------------------------------------------------
(* WaterLevelCard with the update highlight: state machine *)

\* The values of the data prop that differ from the current one under
\* Object.is: null when the prop is an object, and any object of a new
\* snapshot, which is a new reference whatever it holds.
NextCardData ==
    {Defined([ref |-> timersSet + 1, water_level_cm |-> l]) : l \in CardLevels}
        \cup (IF IsDefined(cardData) THEN {Undefined} ELSE {})

\* The effect after the first render: setIsUpdating(true) and setTimeout.
CardEffect ==
    /\ cardPhase = "rendered"
    /\ timersSet < MaxTimers
    /\ cardPhase' = "mounted"
    /\ isUpdating' = TRUE
    /\ timersSet' = timersSet + 1
    /\ pendingTimers' = pendingTimers \cup {timersSet'}
    /\ UNCHANGED cardData
    /\ UNCHANGED <<dashVars, chartVars, statusVars, timeVars>>

\* A variant of the re-render with new data whose cleanup does not call
\* clearTimeout.
DataChangeNoCleanup(d) ==
    /\ cardPhase = "mounted"
    /\ timersSet < MaxTimers
    /\ d \in NextCardData
    /\ cardData' = d
    /\ isUpdating' = TRUE
    /\ timersSet' = timersSet + 1
    /\ pendingTimers' = pendingTimers \cup {timersSet'}
    /\ UNCHANGED cardPhase
    /\ UNCHANGED <<dashVars, chartVars, statusVars, timeVars>>

\* A render with another data prop: the cleanup of the previous effect,
\* clearTimeout(timer), then the effect again.
DataChange(d) ==
    /\ cardPhase = "mounted"
    /\ timersSet < MaxTimers
    /\ d \in NextCardData
    /\ cardData' = d
    /\ isUpdating' = TRUE
    /\ timersSet' = timersSet + 1
    /\ pendingTimers' = (pendingTimers \ {timersSet}) \cup {timersSet'}
    /\ UNCHANGED cardPhase
    /\ UNCHANGED <<dashVars, chartVars, statusVars, timeVars>>

\* The callback of a pending timer: () => setIsUpdating(false)
TimerFire ==
    /\ \E t \in pendingTimers :
          /\ pendingTimers' = pendingTimers \ {t}
          /\ isUpdating' = FALSE
    /\ UNCHANGED <<cardData, timersSet, cardPhase>>
    /\ UNCHANGED <<dashVars, chartVars, statusVars, timeVars>>

\* The card leaves the tree: the cleanup of the last effect, clearTimeout.
CardUnmount ==
    /\ cardPhase = "mounted"
    /\ cardPhase' = "unmounted"
    /\ pendingTimers' = pendingTimers \ {timersSet}
    /\ UNCHANGED <<cardData, isUpdating, timersSet>>
    /\ UNCHANGED <<dashVars, chartVars, statusVars, timeVars>>

CardNext ==
    \/ CardEffect
    \/ \E d \in NextCardData : DataChange(d)
    \/ TimerFire
    \/ CardUnmount

SpecCard == Init /\ [][CardNext]_vars

\* A pending timer fires once its 600 ms have passed.
SpecCardLive == SpecCard /\ WF_vars(TimerFire)

----------------------------------------------------------------------------
(* Properties of the Dashboard (specification Spec) *)

\* The nodes a view shows a card or a chart for.
ShownNodes(v) == DOMAIN v.cards \cup DOMAIN v.charts

\* The nodes a view has classified (getStatus) or aggregated (HistoryChart
\* past its early return).
ClassifiedNodes(v) == {id \in DOMAIN v.cards : v.cards[id].kind = "level"}

AggregatedNodes(v) == {id \in DOMAIN v.charts : v.charts[id].kind = "chart"}

\* The empty, no-data view: the dashboard of a null floodData.
NoDataView == RenderMain(Undefined, lastUpdate)

\* C1: after a snapshot delivery the page shows only what the delivered
\* snapshot holds: every node shown is a node of that snapshot, and after an
\* empty snapshot (snapshot.val() is null) no node, no gateway value and no
\* update time of an earlier snapshot is shown.
C1_DisplayReflectsLastSnapshot ==
    (mounted /\ lastDelivered.kind = "snapshot") =>
        /\ ShownNodes(view) \subseteq nodeEntries(lastDelivered.val)
        /\ ~IsDefined(lastDelivered.val) =>
              /\ view.badge = "none"
              /\ view.gateway = "none"
              /\ ~view.updated

\* C2: while error is set the page is the error view, which is neither the
\* loading view nor the no-data view, and no node is classified or aggregated.
C2_ErrorViewOnly ==
    (mounted /\ IsDefined(error)) =>
        /\ view = PlainView("error", ValueOf(error))
        /\ view # PlainView("loading", "Connecting to Firebase...")
        /\ view # NoDataView
        /\ ClassifiedNodes(view) = {}
        /\ AggregatedNodes(view) = {}

\* C2, witness: the error state is entered while floodData holds nodes that a
\* render of the data would classify and aggregate.
C2_Witness ==
    /\ mounted
    /\ IsDefined(error)
    /\ ~RenderThrows(floodData)
    /\ ClassifiedNodes(RenderMain(floodData, lastUpdate)) # {}
    /\ AggregatedNodes(RenderMain(floodData, lastUpdate)) # {}

\* C3: rendering a non-null payload never throws, whatever its shape.
C3_RenderNeverThrows == view.kind # "crashed"

\* "latest is null or lacks the measurement field".
LatestLacksMeasurement(node) ==
    \/ node.latest = Undefined
    \/ ValueOf(node.latest).type # "object"
    \/ ValueOf(node.latest).wl_cm = Undefined

\* "history is empty or absent".
HistoryIsEmpty(node) ==
    \/ node.history = Undefined
    \/ ValueOf(node.history) = <<>>

\* C4: for every node of a rendered payload, the card is in its no-data state
\* exactly when latest is null or lacks the measurement field, the chart is in
\* its no-history state exactly when history is empty or absent, each whatever
\* the other is, and the render does not throw.
C4_LatestAndHistoryIndependent ==
    (mounted /\ ~loading /\ ~IsDefined(error) /\ IsDefined(floodData)
       /\ ~RenderThrows(floodData)) =>
        /\ view.kind = "dashboard"
        /\ \A id \in nodeEntries(floodData) :
              LET node == ValueOf(ValueOf(floodData).nodes)[id]
              IN  /\ id \in DOMAIN view.cards
                  /\ id \in DOMAIN view.charts
                  /\ (view.cards[id].kind = "no-data") <=> LatestLacksMeasurement(node)
                  /\ (view.charts[id].kind = "no-history") <=> HistoryIsEmpty(node)

\* C4, witness: the page shows a node without a measurement whose chart is
\* drawn, next to a node whose card shows a level.
C4_Witness ==
    /\ view.kind = "dashboard"
    /\ \E id \in DOMAIN view.cards :
          /\ view.cards[id].kind = "no-data"
          /\ view.charts[id].kind = "chart"
    /\ \E id \in DOMAIN view.cards : view.cards[id].kind = "level"

----------------------------------------------------------------------------
(* Properties of HistoryChart (specification SpecChart) *)

\* The orderings of a collection of readings: every sequence that lists the
\* entries of h once each.
Orderings(h) ==
    {[i \in 1..Len(h) |-> h[f[i]]] : f \in Permutations(1..Len(h))}

\* The position of the entry with push id `id` in h.
PositionOf(h, id) == CHOOSE i \in 1..Len(h) : h[i].id = id

DistinctEpochs(h) ==
    \A i, j \in 1..Len(h) :
        i # j => h[i].timestamp_epoch # h[j].timestamp_epoch

\* p and q list the readings that share a timestamp_epoch in the same order.
SameTieOrder(p, q) ==
    \A i, j \in 1..Len(p) :
        (i < j /\ p[i].timestamp_epoch = p[j].timestamp_epoch) =>
            PositionOf(q, p[i].id) < PositionOf(q, p[j].id)

\* The bucket key of a reading in the process that renders the chart.
KeyOf(r) ==
    BucketKey(extractIsoDate(r.timestamp_iso, Defined(r.timestamp_epoch), localZone),
              extractIsoHour(r.timestamp_iso, Defined(r.timestamp_epoch), localZone))

\* The readings of the history that fall in the k-th bucket of hourlyData.
ReadingsOf(k) == SelectSeq(history, LAMBDA r : KeyOf(r) = hourlyData[k].sortKey)

LevelsOf(k) == {ReadingsOf(k)[i].wl_cm : i \in 1..Len(ReadingsOf(k))}

\* What the chart derives from the ordering p of the history, in both views.
DerivedFrom(p) ==
    LET sorted == SortedHistory(p)
        hourly == HourlyData(sorted, localZone)
    IN  [sortedHistory |-> sorted,
         hourlyData    |-> hourly,
         views         |-> [mode \in ViewModes |->
                               RenderChart(p, mode, sorted, hourly, localZone)]]

\* C5: when the epochs of the readings are pairwise distinct, every ordering
\* of the readings gives the same chronological series, the one that ascends
\* strictly by timestamp_epoch.
C5_SortIgnoresMapOrder ==
    DistinctEpochs(history) =>
        /\ \A i \in 1..(Len(sortedHistory) - 1) :
              sortedHistory[i].timestamp_epoch < sortedHistory[i + 1].timestamp_epoch
        /\ \A p \in Orderings(history) : SortedHistory(p) = sortedHistory

\* C5, witness: three readings of distinct epochs, handed over in an order
\* that is not the chronological one.
C5_Witness ==
    /\ Len(history) >= 3
    /\ DistinctEpochs(history)
    /\ sortedHistory # history
    /\ sortedHistory = SortedHistory(history)

\* C6: whatever the ordering of the collection (ties in timestamp_epoch
\* included), the chronological series, the statistics, the trend and the
\* hourly buckets are the same.
C6_AnyOrderSameOutput ==
    \A p \in Orderings(history) :
        DerivedFrom(p) = DerivedFrom(history)

\* C6, amended: two orderings that list the readings sharing a
\* timestamp_epoch in the same relative order (every two orderings, when the
\* epochs are pairwise distinct) give the same chronological series,
\* statistics, trend and hourly buckets; whatever the orderings, the readings
\* of the series, the max and min of the raw view and the key, count, min and
\* max of every hourly bucket are the same.
C6_SameTieOrderSameOutput ==
    \A p \in Orderings(history) :
        LET d == DerivedFrom(p)
            bare(h) == [k \in 1..Len(h) |->
                           [sortKey |-> h[k].sortKey, count |-> h[k].count,
                            min |-> h[k].min, max |-> h[k].max]]
            ids(q) == {q[i].id : i \in 1..Len(q)}
        IN  /\ SameTieOrder(p, history) =>
                  /\ d.sortedHistory = sortedHistory
                  /\ d.hourlyData = hourlyData
                  /\ d.views[viewMode] = chart
                  /\ d = DerivedFrom(history)
            /\ ids(d.sortedHistory) = ids(sortedHistory)
            /\ bare(d.hourlyData) = bare(hourlyData)
            /\ Len(history) > 0 =>
                  /\ d.views["default"].stats.maxLevel
                        = Stats("default", sortedHistory, hourlyData).maxLevel
                  /\ d.views["default"].stats.minLevel
                        = Stats("default", sortedHistory, hourlyData).minLevel

\* C6, witness: two readings of one epoch and of different levels with a
\* third reading, which has an ordering other than the given one that keeps
\* the order of the tie, and one that does not and changes the series.
C6_Witness ==
    /\ Len(history) >= 3
    /\ ~DistinctEpochs(history)
    /\ \E p \in Orderings(history) : p # history /\ SameTieOrder(p, history)
    /\ \E p \in Orderings(history) :
          /\ ~SameTieOrder(p, history)
          /\ SortedHistory(p) # sortedHistory

\* C7: the sort is stable: sortedHistory holds the readings of the history,
\* ascending by timestamp_epoch, and readings of equal timestamp_epoch stand
\* in the order in which the input lists them.
C7_SortStable ==
    /\ Len(sortedHistory) = Len(history)
    /\ {sortedHistory[i] : i \in 1..Len(sortedHistory)}
          = {history[i] : i \in 1..Len(history)}
    /\ \A i, j \in 1..Len(sortedHistory) :
          i < j =>
             /\ sortedHistory[i].timestamp_epoch <= sortedHistory[j].timestamp_epoch
             /\ sortedHistory[i].timestamp_epoch = sortedHistory[j].timestamp_epoch =>
                   PositionOf(history, sortedHistory[i].id)
                      < PositionOf(history, sortedHistory[j].id)

\* C7, witness: the input lists "b" before "a", which share their epoch, and
\* a later reading before both, so that the sort moves entries.
C7_Witness ==
    /\ Len(history) >= 3
    /\ \E i, j \in 1..Len(history) :
          /\ i < j
          /\ history[i].id = "b"
          /\ history[j].id = "a"
    /\ sortedHistory # history
    /\ \E i \in 1..(Len(sortedHistory) - 1) :
          sortedHistory[i].id = "b" /\ sortedHistory[i + 1].id = "a"

\* C8: the counts of the buckets of hourlyData add up to the number of
\* readings of the history, every reading falls in exactly one bucket, and
\* the count of a bucket is the number of readings that fall in it.
C8_BucketsPartitionHistory ==
    /\ SumSeq([k \in 1..Len(hourlyData) |-> hourlyData[k].count]) = Len(history)
    /\ \A i \in 1..Len(history) :
          Cardinality({k \in 1..Len(hourlyData) :
                          hourlyData[k].sortKey = KeyOf(history[i])}) = 1
    /\ \A k \in 1..Len(hourlyData) : hourlyData[k].count = Len(ReadingsOf(k))

\* C8, witness: three readings in two buckets, one of which holds two.
C8_Witness ==
    /\ Len(history) >= 3
    /\ Len(hourlyData) = 2
    /\ \E k \in 1..Len(hourlyData) : hourlyData[k].count = 2

\* C9: in every bucket the reported min is at most, and the reported max at
\* least, every measurement of the bucket, and avg is the mean of the
\* measurements rounded to one decimal place.
C9_BucketBounds ==
    \A k \in 1..Len(hourlyData) :
        /\ \A w \in LevelsOf(k) : hourlyData[k].min <= w /\ w <= hourlyData[k].max
        /\ hourlyData[k].avg
              = ToFixed1Div(SumSeq(MapSeq(ReadingsOf(k), LAMBDA r : r.wl_cm)),
                            Len(ReadingsOf(k)))

\* C9, amended: in every bucket the reported min is the least measurement of
\* the bucket rounded to one decimal place, so it is at most every measurement
\* rounded to one decimal place and exceeds no measurement by more than 0.05;
\* the reported max is the greatest measurement rounded to one decimal place,
\* so it is at least every measurement rounded to one decimal place and falls
\* short of none by more than 0.05; avg is the mean of the measurements
\* rounded to one decimal place.
C9_BucketBoundsRounded ==
    \A k \in 1..Len(hourlyData) :
        LET least    == CHOOSE w \in LevelsOf(k) : \A v \in LevelsOf(k) : w <= v
            greatest == CHOOSE w \in LevelsOf(k) : \A v \in LevelsOf(k) : v <= w
        IN  /\ hourlyData[k].min = ToFixed1(least)
            /\ hourlyData[k].max = ToFixed1(greatest)
            /\ \A w \in LevelsOf(k) :
                  /\ hourlyData[k].min <= ToFixed1(w)
                  /\ hourlyData[k].min - w <= 5
                  /\ ToFixed1(w) <= hourlyData[k].max
                  /\ w - hourlyData[k].max <= 5
            /\ hourlyData[k].avg
                  = ToFixed1Div(SumSeq(MapSeq(ReadingsOf(k), LAMBDA r : r.wl_cm)),
                                Len(ReadingsOf(k)))

\* C9, witness: a bucket of two readings whose reported min is above its
\* least measurement, with a third reading in another bucket.
C9_Witness ==
    /\ Len(history) >= 3
    /\ \E k \in 1..Len(hourlyData) :
          /\ hourlyData[k].count = 2
          /\ \E w \in LevelsOf(k) : hourlyData[k].min > w
          /\ hourlyData[k].min < hourlyData[k].max

\* C10: hourlyData is in chronological order: a bucket all of whose readings
\* have a smaller timestamp_epoch than every reading of another bucket stands
\* before that bucket.
C10_BucketsChronological ==
    \A j, k \in 1..Len(hourlyData) :
        (\A r1 \in {ReadingsOf(j)[i] : i \in 1..Len(ReadingsOf(j))},
            r2 \in {ReadingsOf(k)[i] : i \in 1..Len(ReadingsOf(k))} :
                r1.timestamp_epoch < r2.timestamp_epoch)
           => j < k

----------------------------------------------------------------------------
(* Properties of getStatus and barColor (specification SpecStatus) *)

AscendingTiers == {"NORMAL", "MODERATE", "WARNING", "CRITICAL"}

DescendingTiers == {"BAHAYA", "SIAGA", "AMAN"}

BandedTiers == {"CRITICAL", "WARNING", "MODERATE", "NORMAL"}

\* The tier of the first rule of a list of <<condition, tier>> rules whose
\* condition holds.
FirstWins(rules) ==
    rules[CHOOSE i \in 1..Len(rules) :
              rules[i][1] /\ \A j \in 1..(i - 1) : ~rules[j][1]][2]

\* C11: each of the three classifiers returns one tier of its own tier set
\* for the level, whatever it is (on a breakpoint, negative, zero), and that
\* tier is the one of the first condition, in the order of the code, that the
\* level meets.
C11_OneTierFirstMatch ==
    LET l == currentLevel
    IN  /\ status.ascending \in AscendingTiers
        /\ status.ascending =
              FirstWins(<< <<l > Cm(300), "CRITICAL">>, <<l > Cm(200), "WARNING">>,
                           <<l > Cm(100), "MODERATE">>, <<TRUE, "NORMAL">> >>)
        /\ status.descending \in DescendingTiers
        /\ status.descending =
              FirstWins(<< <<l <= Cm(20), "BAHAYA">>, <<l <= Cm(40), "SIAGA">>,
                           <<TRUE, "AMAN">> >>)
        /\ status.banded \in BandedTiers
        /\ status.banded =
              FirstWins(<< <<l < Cm(50), "CRITICAL">>, <<l < Cm(200), "WARNING">>,
                           <<l > Cm(300), "MODERATE">>, <<TRUE, "NORMAL">> >>)

\* C11, witness: a negative level has been classified; it meets the first two
\* conditions of the descending and of the banded classifier.
C11_Witness ==
    /\ currentLevel < 0
    /\ status = [ascending |-> "NORMAL", descending |-> "BAHAYA",
                 banded |-> "CRITICAL", barColor |-> "bg-green-400"]

\* The bar colour that stands for a tier of the ascending profile.
TierColor(tier) ==
    CASE tier = "CRITICAL" -> "bg-red-400"
      [] tier = "WARNING"  -> "bg-orange-400"
      [] tier = "MODERATE" -> "bg-yellow-400"
      [] tier = "NORMAL"   -> "bg-green-400"

\* C12: under the ascending profile a level is NORMAL exactly when it is
\* below 100, MODERATE exactly from 100 to below 200, WARNING exactly from
\* 200 to below 300 and CRITICAL exactly from 300 on, and the bar colour of
\* the chart is the one of that tier.
C12_AscendingBreakpoints ==
    LET l == currentLevel
        t == status.ascending
    IN  /\ (t = "NORMAL") <=> (l < Cm(100))
        /\ (t = "MODERATE") <=> (Cm(100) <= l /\ l < Cm(200))
        /\ (t = "WARNING") <=> (Cm(200) <= l /\ l < Cm(300))
        /\ (t = "CRITICAL") <=> (Cm(300) <= l)
        /\ status.barColor = TierColor(t)

\* How severe a tier of the descending profile is.
DescendingSeverity(tier) ==
    CASE tier = "AMAN" -> 0 [] tier = "SIAGA" -> 1 [] tier = "BAHAYA" -> 2

\* C13: under the descending profile a level is BAHAYA exactly when it is at
\* most 20, SIAGA exactly when it is above 20 and at most 40, AMAN exactly
\* when it is above 40, and no higher level has a more severe tier.
C13_DescendingBreakpoints ==
    LET l == currentLevel
        t == status.descending
    IN  /\ (t = "BAHAYA") <=> (l <= Cm(20))
        /\ (t = "SIAGA") <=> (Cm(20) < l /\ l <= Cm(40))
        /\ (t = "AMAN") <=> (Cm(40) < l)
        /\ \A h \in Levels :
              h > l => DescendingSeverity(getStatus(h)) <= DescendingSeverity(t)

\* C13, witness: the level 20 has been classified BAHAYA.
C13_Witness ==
    /\ currentLevel = Cm(20)
    /\ status.descending = "BAHAYA"

\* How severe a tier of the banded profile is.
BandedSeverity(tier) ==
    CASE tier = "NORMAL" -> 0 [] tier = "MODERATE" -> 1
      [] tier = "WARNING" -> 2 [] tier = "CRITICAL" -> 3

\* C14: under the banded profile a level is NORMAL exactly when it is in the
\* band from 200 to 300 (both included); below the band it is WARNING from 50
\* on and CRITICAL below 50, so that no lower level has a less severe tier;
\* above the band it is MODERATE.
C14_BandedBreakpoints ==
    LET l == currentLevel
        t == status.banded
    IN  /\ (t = "NORMAL") <=> (Cm(200) <= l /\ l <= Cm(300))
        /\ (t = "WARNING") <=> (Cm(50) <= l /\ l < Cm(200))
        /\ (t = "CRITICAL") <=> (l < Cm(50))
        /\ (t = "MODERATE") <=> (l > Cm(300))
        /\ l < Cm(200) =>
              \A h \in Levels :
                  h < l => BandedSeverity(getStatusBanded(h)) >= BandedSeverity(t)

\* C14, witness: the lower end of the band, 200, has been classified NORMAL.
C14_Witness ==
    /\ currentLevel = Cm(200)
    /\ status.banded = "NORMAL"

----------------------------------------------------------------------------
(* Properties of the trend and the statistics (specification SpecChart) *)

\* C15: with an empty history or a history of one reading, the trend is 0 in
\* every view mode of the multi-view chart and in the last-24 chart.
C15_ShortSeriesTrendZero ==
    Len(history) < 2 =>
        /\ \A mode \in ViewModes : Trend(mode, sortedHistory, hourlyData)[1] = 0
        /\ chart.kind = "chart" => chart.trend[1] = 0
        /\ chart24.kind = "chart" => chart24.trend[1] = 0

\* The series a view mode charts: the measurements of sortedHistory in the
\* raw view, the avg values of hourlyData in the hourly view.
ViewSeries(mode) ==
    IF mode = "hourly" THEN [i \in 1..Len(hourlyData) |-> hourlyData[i].avg]
    ELSE [i \in 1..Len(sortedHistory) |-> sortedHistory[i].wl_cm]

\* The sum of the elements lo..hi of a series.
RangeSum(values, lo, hi) ==
    LET RECURSIVE Upto(_)
        Upto(k) == IF k < lo THEN 0 ELSE values[k] + Upto(k - 1)
    IN  Upto(hi)

\* The fraction f is the mean of values[mid+1..n] less the mean of
\* values[1..mid], where mid is the integer with 2 * mid <= n < 2 * mid + 2.
IsHalfMeanDifference(f, values) ==
    LET n == Len(values)
    IN  \E mid \in 1..n :
            /\ 2 * mid <= n
            /\ n < 2 * mid + 2
            /\ f[2] # 0
            /\ f[1] * (mid * (n - mid))
                 = f[2] * (RangeSum(values, mid + 1, n) * mid
                             - RangeSum(values, 1, mid) * (n - mid))

\* C16: for a charted series of at least two values, in the raw view and in
\* the hourly view alike, the trend is the mean of the second half less the
\* mean of the first half, the first half being the first floor(n/2) values;
\* the measurements 10, 30, 20 give 15.
C16_TrendIsHalfMeanDifference ==
    /\ \A mode \in ViewModes :
          Len(ViewSeries(mode)) >= 2 =>
              IsHalfMeanDifference(Trend(mode, sortedHistory, hourlyData),
                                   ViewSeries(mode))
    /\ (chart.kind = "chart" /\ chart.dataLength >= 2) =>
          IsHalfMeanDifference(chart.trend, ViewSeries(viewMode))
    /\ LET f == HalfDelta(<<Cm(10), Cm(30), Cm(20)>>)
       IN  f[1] = Cm(15) * f[2]

\* C16, witness: the hourly view charts three buckets, split one against two,
\* and reports a trend other than 0.
C16_Witness ==
    /\ chart.kind = "chart"
    /\ viewMode = "hourly"
    /\ chart.dataLength = 3
    /\ chart.trend[1] # 0

\* r is the fraction num / den (den > 0) rounded to one decimal, halves
\* rounded away from zero (values in hundredths).
IsRounded1(r, num, den) ==
    LET Abs(x) == IF x < 0 THEN -x ELSE x
        gap    == Abs(r * den - num)
    IN  /\ r % 10 = 0
        /\ 2 * gap <= 10 * den
        /\ 2 * gap = 10 * den => Abs(r * den) > Abs(num)

\* m is the greatest (least) element of a non-empty series.
IsGreatest(m, values) ==
    /\ \E i \in 1..Len(values) : values[i] = m
    /\ \A i \in 1..Len(values) : values[i] <= m

IsLeast(m, values) ==
    /\ \E i \in 1..Len(values) : values[i] = m
    /\ \A i \in 1..Len(values) : m <= values[i]

\* st summarises a non-empty series: the rounded greatest element of highs,
\* the rounded least element of lows, the rounded mean of values.
Summarises(st, highs, lows, values) ==
    /\ \E m \in {highs[i] : i \in 1..Len(highs)} :
           IsGreatest(m, highs) /\ IsRounded1(st.maxLevel, m, 1)
    /\ \E m \in {lows[i] : i \in 1..Len(lows)} :
           IsLeast(m, lows) /\ IsRounded1(st.minLevel, m, 1)
    /\ IsRounded1(st.avgLevel, RangeSum(values, 1, Len(values)), Len(values))

\* The statistics, with the series of the selected view summarised by its
\* own maximum and minimum.
SummaryOfSeries(mode) ==
    LET st == Stats(mode, sortedHistory, hourlyData)
        v  == ViewSeries(mode)
    IN  IF Len(v) = 0 THEN st = [maxLevel |-> 0, minLevel |-> 0, avgLevel |-> 0]
        ELSE Summarises(st, v, v, v) /\ st.minLevel <= st.avgLevel
                                     /\ st.avgLevel <= st.maxLevel

\* C17, as stated: the statistics are 0, 0, 0 for an empty series and else
\* the maximum, minimum and mean of the series of the selected view, each
\* rounded to one decimal, with min <= mean <= max.
C17_SummaryOfSeries ==
    /\ \A mode \in ViewModes : SummaryOfSeries(mode)
    /\ chart.kind = "chart" => chart.stats = Stats(viewMode, sortedHistory, hourlyData)

\* The statistics, with the hourly view summarised by the greatest bucket
\* max, the least bucket min and the mean of the bucket avg values.
SummaryOfView(mode) ==
    LET st == Stats(mode, sortedHistory, hourlyData)
        v  == ViewSeries(mode)
        hi == IF mode = "hourly"
              THEN [i \in 1..Len(hourlyData) |-> hourlyData[i].max] ELSE v
        lo == IF mode = "hourly"
              THEN [i \in 1..Len(hourlyData) |-> hourlyData[i].min] ELSE v
    IN  IF Len(v) = 0 THEN st = [maxLevel |-> 0, minLevel |-> 0, avgLevel |-> 0]
        ELSE Summarises(st, hi, lo, v) /\ st.minLevel <= st.avgLevel
                                       /\ st.avgLevel <= st.maxLevel

\* C17, amended: the statistics are 0, 0, 0 for an empty series; in the raw
\* view they are the maximum, minimum and mean of the measurements; in the
\* hourly view they are the greatest bucket max, the least bucket min and the
\* mean of the bucket avg values; each is rounded to one decimal and
\* min <= mean <= max.
C17_SummaryOfView ==
    /\ \A mode \in ViewModes : SummaryOfView(mode)
    /\ chart.kind = "chart" => chart.stats = Stats(viewMode, sortedHistory, hourlyData)

\* C17, witness: the hourly view shows a bucket of two readings and a
\* maximum above every charted average.
C17_Witness ==
    /\ chart.kind = "chart"
    /\ viewMode = "hourly"
    /\ \E i \in 1..Len(hourlyData) : hourlyData[i].count >= 2
    /\ \A i \in 1..Len(hourlyData) : hourlyData[i].avg < chart.stats.maxLevel

----------------------------------------------------------------------------
(* Properties of lib/time (specification SpecTime) *)

\* The example string "2026-02-26T04:52:57+07:00".
SampleIso ==
    <<"2", "0", "2", "6", "-", "0", "2", "-", "2", "6", "T", "0", "4",
      ":", "5", "2", ":", "5", "7", "+", "0", "7", ":", "0", "0">>

\* The four results for the ISO string iso and the epoch e in the zone z.
ResultsOf(iso, e, z) == ShownFor([iso |-> iso, epoch |-> e], z)

\* The wall-clock fields written in a string "YYYY-MM-DDTHH:MM:SS...".
EmbeddedFields(str) ==
    [time     |-> SubSeq(str, 12, 16),
     dateTime |-> SubSeq(str, 9, 10) \o <<"/">> \o SubSeq(str, 6, 7) \o <<"/">>
                    \o SubSeq(str, 1, 4) \o <<",", " ">> \o SubSeq(str, 12, 19),
     hour     |-> ParseInt(SubSeq(str, 12, 13)),
     date     |-> SubSeq(str, 1, 10)]

\* C18: with a well-formed ISO string the four functions return the fields
\* written in the string, whatever the local zone and whatever the epoch;
\* "2026-02-26T04:52:57+07:00" gives "04:52".
C18_IsoFieldsZoneIndependent ==
    stamp.iso \in WellFormedIsos =>
        /\ shown = EmbeddedFields(ValueOf(stamp.iso))
        /\ \A z \in LocalZones, e \in Epochs : ResultsOf(stamp.iso, e, z) = shown
        /\ stamp.iso = Defined(SampleIso) =>
              shown.time = <<"0", "4", ":", "5", "2">>

\* C18, witness: a process in UTC has shown "04:52" for the +07:00 string
\* whose epoch names another hour.
C18_Witness ==
    /\ localZone = 0
    /\ stamp.iso = Defined(SampleIso)
    /\ stamp.epoch = Defined(SampleEpoch + 3600)
    /\ shown.time = <<"0", "4", ":", "5", "2">>

\* C19: with the ISO string missing or unparseable and an epoch present, the
\* results are those of the epoch read in UTC, whatever the local zone; the
\* epoch 0 gives the date "1970-01-01" and the hour 0.
C19_EpochFallbackInUtc ==
    (stamp.iso \in UnusableIsos /\ IsDefined(stamp.epoch)) =>
        /\ shown = ResultsOf(stamp.iso, stamp.epoch, 0)
        /\ stamp.epoch = Defined(0) =>
              /\ shown.date = <<"1", "9", "7", "0", "-", "0", "1", "-", "0", "1">>
              /\ shown.hour = 0

\* The ISO strings each function finds its fields in.
UsableFor ==
    [time     |-> WellFormedIsos
                    \cup {Defined(SubSeq(SampleIso, 1, 16))},
     dateTime |-> WellFormedIsos,
     hour     |-> WellFormedIsos
                    \cup {Defined(SubSeq(SampleIso, 1, 16)),
                          Defined(SubSeq(SampleIso, 11, 15))},
     date     |-> WellFormedIsos
                    \cup {Defined(SubSeq(SampleIso, 1, 10)),
                          Defined(SubSeq(SampleIso, 1, 16))}]

\* The sentinel of each function.
Sentinel ==
    [time |-> EmDash, dateTime |-> EmDash, hour |-> 0, date |-> <<"1", "9", "7", "0", "-", "0", "1", "-", "0", "1">>]

\* C20: every function returns a value for every combination of inputs, and
\* looks first at the ISO string, then at the epoch, then returns its
\* sentinel: a usable string decides the result whatever the epoch; without
\* one a present epoch decides it; with neither the display functions return
\* the dash, extractIsoDate "1970-01-01" and extractIsoHour 0.
C20_FallbackChain ==
    /\ shown = ResultsOf(stamp.iso, stamp.epoch, localZone)
    /\ \A f \in DOMAIN Sentinel :
          /\ stamp.iso \in UsableFor[f] =>
                \A e \in Epochs : shown[f] = ResultsOf(stamp.iso, e, localZone)[f]
          /\ (stamp.iso \notin UsableFor[f] /\ IsDefined(stamp.epoch)) =>
                /\ shown[f] = ResultsOf(Undefined, stamp.epoch, localZone)[f]
                /\ f \in {"time", "dateTime"} => shown[f] # EmDash
          /\ (stamp.iso \notin UsableFor[f] /\ ~IsDefined(stamp.epoch)) =>
                shown[f] = Sentinel[f]

\* C20, witness: a malformed string without an epoch has been shown as the
\* sentinels.
C20_Witness ==
    /\ stamp.iso = Defined(<<"n", "o", "t", " ", "a", " ", "d", "a", "t", "e">>)
    /\ stamp.epoch = Undefined
    /\ shown.time = EmDash
    /\ shown.date = <<"1", "9", "7", "0", "-", "0", "1", "-", "0", "1">>

----------------------------------------------------------------------------
(* Properties of the Dashboard, continued (specification Spec) *)

\* The ids under nodes of a delivered snapshot value whose value is a node
\* object.
NodesOfSnapshot(val) ==
    IF ~IsDefined(val) THEN {}
    ELSE IF ~IsDefined(ValueOf(val).nodes) THEN {}
    ELSE {id \in DOMAIN ValueOf(ValueOf(val).nodes) :
             ValueOf(ValueOf(val).nodes)[id].type = "object"}

\* C21: after a snapshot delivery, and until the Dashboard is unmounted, the
\* page shows one card and one chart for each node of that snapshot and none
\* for any other id.
C21_EveryNodeDisplayed ==
    (lastDelivered.kind = "snapshot" /\ view.kind # "unmounted") =>
        /\ DOMAIN view.cards = NodesOfSnapshot(lastDelivered.val)
        /\ DOMAIN view.charts = NodesOfSnapshot(lastDelivered.val)

\* The state the callbacks of onValue write.
callbackState == <<floodData, loading, error, lastUpdate, lastDelivered>>

\* C22: there is never more than one listener and none while the Dashboard
\* is unmounted; a listener is registered only when there is none, by a step
\* that is no callback; a callback registers no listener; once unmounted, no
\* step changes what the callbacks write.
C22_OneSubscription ==
    /\ [](listeners \in {0, 1} /\ (~mounted => listeners = 0))
    /\ [][/\ listeners' > listeners =>
                /\ listeners = 0
                /\ mounted
                /\ UNCHANGED <<callbackState, view>>
          /\ callbackState' # callbackState => listeners' <= listeners
          /\ ~mounted => UNCHANGED callbackState]_vars

\* C22, witness: the Dashboard has been unmounted after a snapshot callback
\* and holds no listener.
C22_Witness ==
    /\ view.kind = "unmounted"
    /\ listeners = 0
    /\ lastDelivered.kind = "snapshot"

GatewayIsFresh ==
    /\ IsDefined(floodData)
    /\ IsDefined(ValueOf(floodData).gateway)
    /\ IsDefined(ValueOf(ValueOf(floodData).gateway).status)
    /\ ValueOf(ValueOf(ValueOf(floodData).gateway).status).last_activity < 60

\* The page is rendered from data whose gateway carries no status.
GatewayStatusMissing ==
    /\ IsDefined(floodData)
    /\ IsDefined(ValueOf(floodData).gateway)
    /\ ~IsDefined(ValueOf(ValueOf(floodData).gateway).status)

\* C24, as stated: on the dashboard view the header badge and the gateway
\* panel show the same value, Online when the gateway status carries a
\* last_activity below 60 and Offline in every other case.
C24_OnlineOrOffline ==
    (view.kind = "dashboard" /\ IsDefined(floodData)) =>
        /\ view.badge = view.gateway
        /\ view.badge = IF GatewayIsFresh THEN "Online" ELSE "Offline"

\* C24, amended: on the dashboard view, with a gateway status the badge and
\* the panel show the same value, Online when last_activity is below 60 and
\* Offline otherwise; without a gateway status there is no badge and the
\* panel shows its loading placeholder; before any data there is neither.
C24_OnlineOfflineOrNoStatus ==
    view.kind = "dashboard" =>
        IF ~IsDefined(floodData)
        THEN view.badge = "none" /\ view.gateway = "none"
        ELSE IF GatewayStatusMissing
        THEN view.badge = "none" /\ view.gateway = "loading"
        ELSE /\ view.badge = view.gateway
             /\ view.badge = IF GatewayIsFresh THEN "Online" ELSE "Offline"

\* C24, witness: a gateway whose last_activity is exactly 60 is shown as
\* Offline by the badge and by the panel.
C24_Witness ==
    /\ view.kind = "dashboard"
    /\ IsDefined(gwStatus(floodData))
    /\ ValueOf(gwStatus(floodData)).last_activity = 60
    /\ view.badge = "Offline"
    /\ view.gateway = "Offline"

\* C27: the Dashboard is loading exactly until the first callback, of either
\* kind and whatever the snapshot holds, and never again; while it is loading
\* the page is the loading view and neither an error nor data is held or
\* shown.
C27_LoadingMonotone ==
    /\ [](/\ loading <=> (lastDelivered.kind = "none")
          /\ loading =>
                /\ ~IsDefined(error)
                /\ ~IsDefined(floodData)
                /\ view.kind \in {"loading", "unmounted"}
                /\ ShownNodes(view) = {})
    /\ [][~loading => ~loading']_vars

\* C27, witness: the first callback delivered an empty snapshot and the page
\* has left the loading view for the dashboard without data.
C27_Witness ==
    /\ ~loading
    /\ lastDelivered = [kind |-> "snapshot", val |-> Undefined]
    /\ ~IsDefined(floodData)
    /\ view.kind = "dashboard"

----------------------------------------------------------------------------
(* Properties of the last-24 HistoryChart (specification SpecLast24) *)

\* The number of readings of h that are newer than the reading i.
NewerThan(h, i) == Cardinality({j \in 1..Len(h) : h[j].ts > h[i].ts})

\* The levels of the min(24, n) readings of h with the largest ts, in
\* ascending order of ts (the ts of h are distinct).
NewestLevels(h) ==
    LET m == Min2(24, Len(h))
    IN  [k \in 1..m |->
            h[CHOOSE i \in 1..Len(h) : NewerThan(h, i) = m - k].water_level_cm]

----------------------------------------------------------------------------
(* Properties of HistoryChart, continued (specification SpecChart) *)

\* C26: sortedHistory and hourlyData are at every time what sorting and
\* aggregating the current history alone gives; a change of the view mode
\* changes neither of them, nor the history, nor the view mode of the chart
\* of another node, and a change of that one changes nothing of this chart.
C26_BucketsFromCurrentHistoryOnly ==
    /\ [](/\ sortedHistory = SortedHistory(history)
          /\ hourlyData = HourlyData(SortedHistory(history), localZone))
    /\ [][/\ viewMode' # viewMode =>
                UNCHANGED <<history, sortedHistory, hourlyData, siblingViewMode>>
          /\ siblingViewMode' # siblingViewMode =>
                UNCHANGED <<history, sortedHistory, hourlyData, viewMode, chart>>]_vars

\* C26, witness: the chart shows, in the hourly view, the one bucket of a
\* history of one reading while the chart of another node is in the raw
\* view; a history of one reading is reached from an empty or a longer one.
C26_Witness ==
    /\ viewMode = "hourly"
    /\ siblingViewMode = "default"
    /\ Len(history) = 1
    /\ Len(hourlyData) = 1
    /\ hourlyData[1].count = 1

\* C29: in both view modes the categories, the series and dataLength have
\* one length; a history that is not empty gives at least one bucket, every
\* bucket counts at least one reading, and the chart draws its line, never
\* the inner "no data" branch.
C29_SeriesLengthsAgree ==
    /\ \A mode \in ViewModes :
          /\ Len(Categories(mode, sortedHistory, hourlyData, localZone))
                = Len(SeriesData(mode, sortedHistory, hourlyData))
          /\ Len(SeriesData(mode, sortedHistory, hourlyData))
                = DataLength(mode, sortedHistory, hourlyData)
          /\ Len(history) > 0 => DataLength(mode, sortedHistory, hourlyData) >= 1
    /\ \A i \in 1..Len(hourlyData) : hourlyData[i].count >= 1
    /\ Len(history) > 0 =>
          /\ chart.kind = "chart"
          /\ Len(chart.categories) = chart.dataLength
          /\ Len(chart.seriesData) = chart.dataLength
          /\ chart.plot = "line"

\* C29, witness: the hourly view draws the line of a history of three
\* readings that fall into fewer than three buckets.
C29_Witness ==
    /\ chart.kind = "chart"
    /\ viewMode = "hourly"
    /\ Len(history) = 3
    /\ chart.dataLength < 3
    /\ chart.plot = "line"

----------------------------------------------------------------------------
(* Properties of the WaterLevelCard highlight (specification SpecCardLive) *)

\* C30: a change of the data prop sets isUpdating and leaves exactly one
\* timer pending, a new one; there is never more than one pending timer, and
\* none once the card is unmounted, so that isUpdating does not change after
\* the unmount; while the card stays mounted and the data stays the same,
\* isUpdating returns to false.
C30_SingleResetTimer ==
    /\ [](/\ Cardinality(pendingTimers) <= 1
          /\ cardPhase = "unmounted" => pendingTimers = {}
          /\ (cardPhase = "mounted" /\ isUpdating) => pendingTimers = {timersSet})
    /\ [][/\ cardData' # cardData =>
                /\ isUpdating'
                /\ Cardinality(pendingTimers') = 1
                /\ pendingTimers' \cap pendingTimers = {}
          /\ cardPhase = "unmounted" => isUpdating' = isUpdating]_vars
    /\ \A k \in 1..MaxTimers :
          (isUpdating /\ cardPhase = "mounted" /\ timersSet = k)
              ~> (~isUpdating \/ cardPhase = "unmounted" \/ timersSet # k)

\* C30, witness: after a change of the data the reset has fired and the
\* mounted card is no longer highlighted.
C30_Witness ==
    /\ cardPhase = "mounted"
    /\ timersSet >= 2
    /\ IsDefined(cardData)
    /\ ~isUpdating
    /\ pendingTimers = {}

====
